---- MODULE Spec2Model ----
(***************************************************************************)
(* Pastebin-Lite backend: the paste store and the handlers that act on it  *)
(* (create, GET /:id, GET /:id/raw, cleanup sweep, purge, statistics), the *)
(* authorization of the cleanup routes and the rate limiters in front of   *)
(* the routes.                                                             *)
(*                                                                         *)
(* Time is counted in minutes.  A handler is a sequence of steps, one per  *)
(* awaited store call; Spec runs every handler to completion in one step   *)
(* (requests served one after the other), ConcSpec interleaves the steps   *)
(* of up to MaxInFlight requests.  Spec, ConcSpec and InputSpec follow the *)
(* requests the rate limiters have let through, on a server outside        *)
(* production with no CRON_SECRET; AuthSpec and LimitSpec put the          *)
(* middleware in front of the handlers.                                    *)
(*                                                                         *)
(* env is the process environment (NODE_ENV, CRON_SECRET), limits the      *)
(* stores of the four rate limiters, accepted the requests each client had *)
(* answered with success since the clock last advanced.                    *)
(***************************************************************************)
EXTENDS Integers, Sequences, FiniteSets, Bags, TLC

VARIABLES db, clock, ticks, retired, reqs, started, last, served,
          env, limits, accepted

vars == <<db, clock, ticks, retired, reqs, started, last, served,
          env, limits, accepted>>

(***************************************************************************)
(* Bounds of the model                                                     *)
(***************************************************************************)
\* number of clock advances in a behaviour
MaxTicks == 2
\* views of a paste that has no view limit
MaxUnlimitedViews == 2
\* requests in flight at the same time (ConcSpec)
MaxInFlight == 2
\* requests a behaviour of ConcSpec starts
MaxStarted == 3

(***************************************************************************)
(* Values                                                                  *)
(***************************************************************************)
\* null of the nullable columns expiresAt and maxViews, and of absent inputs
Null == -1

MinutesPerDay == 1440

DEFAULT_RETENTION == 7

MAX_CONTENT_SIZE == 500 * 1024

MAX_EXPIRES_IN == 365 * 24 * 60

MAX_MAX_VIEWS == 1000000

ID_MAX_LEN == 20

Digits == {"0", "1", "2", "3", "4", "5", "6", "7", "8", "9"}

Letters == {"a", "b", "c", "d", "e", "f", "g", "h", "i", "j", "k", "l", "m",
            "n", "o", "p", "q", "r", "s", "t", "u", "v", "w", "x", "y", "z",
            "A", "B", "C", "D", "E", "F", "G", "H", "I", "J", "K", "L", "M",
            "N", "O", "P", "Q", "R", "S", "T", "U", "V", "W", "X", "Y", "Z"}

\* ids the generator returns in this model (8 characters of its alphabet)
GenIds == { <<"2", "3", "A", "B", "a", "b", "y", "z">>,
            <<"9", "Z", "k", "m", "H", "J", "7", "x">> }

\* ids a client can put in the path
PathIds == GenIds \cup { <<"a", "-", "b">> }

\* a text is a sequence of runs: Rep(c, n) is the character c written n
\* times (n >= 1, neighbouring runs of different characters), <<>> the empty
\* string.  "EURO" is a character of one UTF-16 code unit and three UTF-8
\* bytes, "EMOJI" one of two code units and four bytes.
Rep(c, n) == [ch |-> c, n |-> n]

\* request bodies of POST /api/pastes: content, expiresIn, maxViews
Contents == { <<>>, <<Rep("h", 1)>> }

ExpiresInInputs == {Null, 0, DEFAULT_RETENTION * MinutesPerDay}

MaxViewsInputs == {Null, 1, 2}

\* values of the query parameter retentionDays; Absent is String(undefined),
\* what parseInt sees when the parameter is not sent
Absent == <<"u", "n", "d", "e", "f", "i", "n", "e", "d">>

RetentionInputs == { Absent, <<"0">>, <<"1">>, <<"-", "1">>, <<"x">>, <<"1", "4">> }

\* the clock advances by the default retention period, which is also the
\* expiresIn of the pastes that expire
TickSteps == {DEFAULT_RETENTION * MinutesPerDay}

(***************************************************************************)
(* lib/utils.ts: the expiration evaluator                                  *)
(***************************************************************************)
\* isPast with the comparison turned around
isPastReversed(date, now) == date > now

\* date-fns isPast(date): the date is strictly before Date.now()
isPast(date, now) == date < now

\* date-fns addMinutes(new Date(), m)
addMinutes(now, m) == now + m

\* expiresIn = 0 taken as a time limit that ends at once
calculateExpiresAtZeroExpires(expiresInMinutes, now) ==
    IF expiresInMinutes = Null THEN Null ELSE addMinutes(now, expiresInMinutes)

calculateExpiresAt(expiresInMinutes, now) ==
    IF expiresInMinutes = Null \/ expiresInMinutes = 0 \/ expiresInMinutes <= 0
    THEN Null
    ELSE addMinutes(now, expiresInMinutes)

\* the evaluator without its view-based branch
isExpiredNoViewCheck(paste, now) ==
    IF paste.isExpired THEN TRUE
    ELSE IF paste.expiresAt # Null /\ isPast(paste.expiresAt, now) THEN TRUE
    ELSE FALSE

\* the view limit compared with > instead of >=
isExpiredViewsOffByOne(paste, now) ==
    IF paste.isExpired THEN TRUE
    ELSE IF paste.expiresAt # Null /\ isPast(paste.expiresAt, now) THEN TRUE
    ELSE IF paste.maxViews # Null /\ paste.viewCount > paste.maxViews THEN TRUE
    ELSE FALSE

isExpired(paste, now) ==
    IF paste.isExpired THEN TRUE
    ELSE IF paste.expiresAt # Null /\ isPast(paste.expiresAt, now) THEN TRUE
    ELSE IF paste.maxViews # Null /\ paste.viewCount >= paste.maxViews THEN TRUE
    ELSE FALSE

REASON_TIME == "This paste has expired due to time limit"

REASON_VIEWS == "This paste has expired due to view limit"

REASON_DELETED == "This paste has been deleted"

REASON_DEFAULT == "This paste has expired"

\* the reason with the view limit looked at before the time limit
getExpirationReasonViewsFirst(paste, now) ==
    IF ~isExpired(paste, now) THEN ""
    ELSE IF paste.maxViews # Null /\ paste.viewCount >= paste.maxViews THEN REASON_VIEWS
    ELSE IF paste.expiresAt # Null /\ isPast(paste.expiresAt, now) THEN REASON_TIME
    ELSE REASON_DELETED

\* "" stands for the null the function returns for a paste that is not expired
getExpirationReason(paste, now) ==
    IF ~isExpired(paste, now) THEN ""
    ELSE IF paste.expiresAt # Null /\ isPast(paste.expiresAt, now) THEN REASON_TIME
    ELSE IF paste.maxViews # Null /\ paste.viewCount >= paste.maxViews THEN REASON_VIEWS
    ELSE REASON_DELETED

Max(a, b) == IF a >= b THEN a ELSE b

\* the remaining views without the clamp at 0 and one too many
calculateRemainingViewsOffByOne(paste) ==
    IF paste.maxViews = Null THEN Null
    ELSE paste.maxViews - paste.viewCount + 1

calculateRemainingViews(paste) ==
    IF paste.maxViews = Null THEN Null
    ELSE Max(0, paste.maxViews - paste.viewCount)

(***************************************************************************)
(* lib/validation: the zod schemas                                         *)
(***************************************************************************)
\* String.length counts UTF-16 code units
CodeUnits(c) == IF c = "EMOJI" THEN 2 ELSE 1

RECURSIVE StrLen(_)
StrLen(s) == IF s = <<>> THEN 0 ELSE Head(s).n * CodeUnits(Head(s).ch) + StrLen(Tail(s))

\* TextEncoder().encode(content).length counts UTF-8 bytes
Utf8Bytes(c) == IF c = "EURO" THEN 3 ELSE IF c = "EMOJI" THEN 4 ELSE 1

RECURSIVE ByteLen(_)
ByteLen(s) == IF s = <<>> THEN 0 ELSE Head(s).n * Utf8Bytes(Head(s).ch) + ByteLen(Tail(s))

\* the white space String.prototype.trim removes
IsSpace(c) == c \in {" ", "TAB", "LF"}

RECURSIVE TrimStart(_)
TrimStart(s) ==
    IF s # <<>> /\ IsSpace(Head(s).ch) THEN TrimStart(Tail(s)) ELSE s

RECURSIVE TrimEnd(_)
TrimEnd(s) ==
    IF s # <<>> /\ IsSpace(s[Len(s)].ch) THEN TrimEnd(SubSeq(s, 1, Len(s) - 1)) ELSE s

\* String.prototype.trim
Trim(s) == TrimEnd(TrimStart(s))

\* content: z.string().min(1).max(MAX_CONTENT_SIZE), checked before the trim
ContentOk(content) == StrLen(content) >= 1 /\ StrLen(content) <= MAX_CONTENT_SIZE

\* expiresIn: z.number().int().min(0).max(1 year).optional().nullable()
ExpiresInOk(e) == e = Null \/ (e >= 0 /\ e <= MAX_EXPIRES_IN)

\* maxViews: z.number().int().min(1).max(1000000).optional().nullable()
MaxViewsOk(m) == m = Null \/ (m >= 1 /\ m <= MAX_MAX_VIEWS)

\* validateRequest(CreatePasteSchema, body): success and the parsed data
CreatePasteSchema(body) ==
    [success |-> ContentOk(body.content) /\ ExpiresInOk(body.expiresIn)
                    /\ MaxViewsOk(body.maxViews),
     data |-> [content |-> Trim(body.content),
               expiresIn |-> body.expiresIn,
               maxViews |-> body.maxViews]]

\* the id schema without its regex
GetPasteParamsSchemaNoRegex(id) == Len(id) >= 1 /\ Len(id) <= ID_MAX_LEN

\* validateRequest(GetPasteParamsSchema, params): 1..20 characters of [a-zA-Z0-9]
GetPasteParamsSchema(id) ==
    /\ Len(id) >= 1
    /\ Len(id) <= ID_MAX_LEN
    /\ \A i \in 1..Len(id) : id[i] \in (Letters \cup Digits)

(***************************************************************************)
(* routes/cleanup.ts: parseInt(req.query.retentionDays) || 7               *)
(***************************************************************************)
DigitVal == ("0" :> 0) @@ ("1" :> 1) @@ ("2" :> 2) @@ ("3" :> 3) @@ ("4" :> 4)
            @@ ("5" :> 5) @@ ("6" :> 6) @@ ("7" :> 7) @@ ("8" :> 8) @@ ("9" :> 9)

\* the value of the leading run of decimal digits of s, and how many there are
RECURSIVE DigitPrefix(_, _, _)
DigitPrefix(s, acc, n) ==
    IF s # <<>> /\ Head(s) \in Digits
    THEN DigitPrefix(Tail(s), 10 * acc + DigitVal[Head(s)], n + 1)
    ELSE [val |-> acc, n |-> n]

\* the query string without its leading white space
RECURSIVE SkipBlanks(_)
SkipBlanks(s) == IF s # <<>> /\ IsSpace(Head(s)) THEN SkipBlanks(Tail(s)) ELSE s

\* parseInt(string): leading blanks, an optional sign, then digits; NaN without digits
parseInt(str) ==
    LET s == SkipBlanks(str)
        neg == s # <<>> /\ Head(s) = "-"
        body == IF s # <<>> /\ Head(s) \in {"-", "+"} THEN Tail(s) ELSE s
        d == DigitPrefix(body, 0, 0)
    IN  IF d.n = 0 THEN [nan |-> TRUE, val |-> 0]
        ELSE [nan |-> FALSE, val |-> IF neg THEN 0 - d.val ELSE d.val]

\* parseInt(x) || 7 : NaN and 0 are falsy
RetentionDays(param) ==
    LET p == parseInt(param)
    IN  IF p.nan \/ p.val = 0 THEN DEFAULT_RETENTION ELSE p.val

\* cutoffDate = new Date(); cutoffDate.setDate(cutoffDate.getDate() - retentionDays)
CutoffDate(now, retentionDays) == now - retentionDays * MinutesPerDay

(***************************************************************************)
(* The store: db maps the id of every stored paste to its row              *)
(***************************************************************************)
NoPaste == [content |-> <<>>, createdAt |-> Null, expiresAt |-> Null,
            maxViews |-> Null, viewCount |-> 0, isExpired |-> FALSE]

\* the columns prisma.paste.create leaves to the schema: createdAt is the
\* creation instant, viewCount starts at 0 and isExpired at false (the schema
\* file is not part of the sources; the values are those the data model of
\* the specification gives)
ColumnDefaults(now) == [createdAt |-> now, viewCount |-> 0, isExpired |-> FALSE]

\* prisma.paste.create: viewCount, isExpired and createdAt take the column defaults
PrismaCreate(d, id, content, expiresAt, maxViews, now) ==
    (id :> ([content |-> content, expiresAt |-> expiresAt, maxViews |-> maxViews]
            @@ ColumnDefaults(now))) @@ d

\* the flag update without its where-clause: every row is flagged
PrismaSetExpiredEveryRow(d, id) == [i \in DOMAIN d |-> [d[i] EXCEPT !.isExpired = TRUE]]

\* prisma.paste.update({ where: { id }, data: { isExpired: true } })
PrismaSetExpired(d, id) == [d EXCEPT ![id].isExpired = TRUE]

\* the view count set to 1 instead of incremented
PrismaSetViewCountOne(d, id) == [d EXCEPT ![id].viewCount = 1]

\* the increment written together with isExpired: false
PrismaIncrementClearsFlag(d, id) ==
    [d EXCEPT ![id].viewCount = @ + 1, ![id].isExpired = FALSE]

\* prisma.paste.update({ where: { id }, data: { viewCount: { increment: 1 } } })
PrismaIncrement(d, id) == [d EXCEPT ![id].viewCount = @ + 1]

\* the updateMany without the isExpired = false condition
TimeExpiredWhereAnyFlag(row, now) == row.expiresAt # Null /\ row.expiresAt <= now

\* where-clause of the sweep's updateMany: isExpired = false, expiresAt <= now
TimeExpiredWhere(row, now) ==
    ~row.isExpired /\ row.expiresAt # Null /\ row.expiresAt <= now

\* the raw UPDATE without the isExpired = false condition
ViewExpiredWhereAnyFlag(row) == row.maxViews # Null /\ row.viewCount >= row.maxViews

\* where-clause of the sweep's raw UPDATE
ViewExpiredWhere(row) ==
    ~row.isExpired /\ row.maxViews # Null /\ row.viewCount >= row.maxViews

\* the purge without the isExpired condition
PurgeWhereAnyFlag(row, cutoffDate) == row.createdAt <= cutoffDate

\* where-clause of the purge's count and deleteMany
PurgeWhere(row, cutoffDate) == row.isExpired /\ row.createdAt <= cutoffDate

\* updateMany / UPDATE ... SET "isExpired" = true on the rows of ids
SetExpiredMany(d, ids) ==
    [id \in DOMAIN d |-> IF id \in ids THEN [d[id] EXCEPT !.isExpired = TRUE] ELSE d[id]]

\* deleteMany on the rows of ids
DeleteMany(d, ids) == [id \in (DOMAIN d) \ ids |-> d[id]]

(***************************************************************************)
(* Requests and responses.  A response record holds the status and the     *)
(* fields of the JSON body; param repeats the retentionDays parameter of   *)
(* the purge request it answers, for the properties.  A request carries    *)
(* its sender (client, the socket address) and the headers the middleware  *)
(* reads: X-Forwarded-For (xff, a list of addresses), X-Real-IP (realIp)   *)
(* and Authorization (auth); "" and <<>> stand for a header not sent.      *)
(***************************************************************************)
NoBody == [content |-> <<>>, expiresIn |-> Null, maxViews |-> Null]

NoResp == [op |-> "none", id |-> <<>>, status |-> 0, code |-> "", message |-> "",
           hasContent |-> FALSE, content |-> <<>>, createdAt |-> Null,
           expiresAt |-> Null, viewCount |-> Null, maxViews |-> Null,
           remainingViews |-> Null, isExpired |-> FALSE,
           timeExpired |-> Null, viewExpired |-> Null, total |-> Null,
           retentionDays |-> Null, cutoffDate |-> Null, purged |-> Null,
           param |-> <<>>,
           pastes |-> Null, active |-> Null, expired |-> Null, totalViews |-> Null,
           withTimeExpiry |-> Null, withViewLimit |-> Null, noExpiry |-> Null]

\* an error response: status and message, no data
ErrorResp(op, id, status, code, message) ==
    [NoResp EXCEPT !.op = op, !.id = id, !.status = status, !.code = code,
                   !.message = message]

NewReq(kind, id, body, param) ==
    [kind |-> kind, pc |-> "start", id |-> id, body |-> body, param |-> param,
     found |-> FALSE, paste |-> NoPaste, updated |-> NoPaste,
     now |-> Null, retentionDays |-> Null, cutoffDate |-> Null,
     timeExpired |-> Null, viewExpired |-> Null, purged |-> Null,
     client |-> "", xff |-> <<>>, realIp |-> "", auth |-> <<>>,
     resp |-> NoResp]

Done(req, resp) == [req EXCEPT !.pc = "done", !.resp = resp]

(***************************************************************************)
(* The handlers.  XStep(d, r, now) is the step of request r that the       *)
(* handler X takes on store d at time now: the code from one awaited store *)
(* call up to and including the next one.  It yields the store and the     *)
(* request after the step; a request that has answered is at pc "done".    *)
(***************************************************************************)
\* the Authorization header that carries the secret
Bearer(secret) == <<"B", "e", "a", "r", "e", "r", " ">> \o secret

\* the check with the production test left out: no secret, no check
verifyCronSecretOpenWithoutSecret(e, authHeader) ==
    IF e.secret = <<>> THEN "next"
    ELSE IF authHeader = <<>> \/ authHeader # Bearer(e.secret) THEN "401"
    ELSE "next"

\* routes/cleanup.ts  verifyCronSecret: "next", or the status it answers with
verifyCronSecret(e, authHeader) ==
    IF ~e.production /\ e.secret = <<>> THEN "next"
    ELSE IF e.secret = <<>> THEN "500"
    ELSE IF authHeader = <<>> \/ authHeader # Bearer(e.secret) THEN "401"
    ELSE "next"

\* the answer of verifyCronSecret when it does not call next
Unauthorized(r, verdict) ==
    IF verdict = "500"
    THEN ErrorResp(r.kind, <<>>, 500, "INTERNAL_ERROR", "Server misconfiguration")
    ELSE ErrorResp(r.kind, <<>>, 401, "UNAUTHORIZED", "Invalid or missing authorization")

\* the create written as an upsert: a row with the same id is replaced
CreateStepUpsert(d, r, now) ==
    IF r.pc = "start" THEN
        LET validation == CreatePasteSchema(r.body)
            data == validation.data
            expiresAt == calculateExpiresAt(data.expiresIn, now)
        IN  IF ~validation.success
            THEN [db |-> d, req |-> Done(r, ErrorResp("create", <<>>, 400, "VALIDATION_ERROR", "Invalid request data"))]
            ELSE LET d2 == PrismaCreate(d, r.id, data.content, expiresAt, data.maxViews, now)
                 IN  [db |-> d2, req |-> [r EXCEPT !.pc = "created", !.updated = d2[r.id]]]
    ELSE \* pc = "created"
        [db |-> d,
         req |-> Done(r, [NoResp EXCEPT !.op = "create", !.id = r.id, !.status = 201,
                                        !.expiresAt = r.updated.expiresAt,
                                        !.maxViews = r.updated.maxViews,
                                        !.createdAt = r.updated.createdAt])]

\* routes/pastes.ts  router.post('/')
CreateStep(d, r, now) ==
    IF r.pc = "start" THEN
        LET validation == CreatePasteSchema(r.body)
            data == validation.data
            expiresAt == calculateExpiresAt(data.expiresIn, now)
        IN  IF ~validation.success
            THEN [db |-> d, req |-> Done(r, ErrorResp("create", <<>>, 400, "VALIDATION_ERROR", "Invalid request data"))]
            ELSE IF r.id \in DOMAIN d
            THEN \* unique constraint: create throws, caught by the handler
                 [db |-> d, req |-> Done(r, ErrorResp("create", r.id, 500, "INTERNAL_ERROR", "Failed to create paste"))]
            ELSE LET d2 == PrismaCreate(d, r.id, data.content, expiresAt, data.maxViews, now)
                 IN  [db |-> d2, req |-> [r EXCEPT !.pc = "created", !.updated = d2[r.id]]]
    ELSE \* pc = "created"
        [db |-> d,
         req |-> Done(r, [NoResp EXCEPT !.op = "create", !.id = r.id, !.status = 201,
                                        !.expiresAt = r.updated.expiresAt,
                                        !.maxViews = r.updated.maxViews,
                                        !.createdAt = r.updated.createdAt])]

\* the 410 of GET /:id
ExpiredResp(r, now) ==
    LET reason == getExpirationReason(r.paste, now)
    IN  ErrorResp("get", r.id, 410, "PASTE_EXPIRED", IF reason = "" THEN REASON_DEFAULT ELSE reason)

\* the 200 of GET /:id, built from updatedPaste
PasteResp(r) ==
    [NoResp EXCEPT !.op = "get", !.id = r.id, !.status = 200,
                   !.hasContent = TRUE, !.content = r.updated.content,
                   !.createdAt = r.updated.createdAt,
                   !.expiresAt = r.updated.expiresAt,
                   !.viewCount = r.updated.viewCount,
                   !.maxViews = r.updated.maxViews,
                   !.remainingViews = calculateRemainingViews(r.updated),
                   !.isExpired = r.updated.isExpired]

\* routes/pastes.ts  router.get('/:id')
GetStep(d, r, now) ==
    LET failed == [db |-> d, req |-> Done(r, ErrorResp("get", r.id, 500, "INTERNAL_ERROR", "Failed to retrieve paste"))]
    IN
    CASE r.pc = "start" ->
            IF ~GetPasteParamsSchema(r.id)
            THEN [db |-> d, req |-> Done(r, ErrorResp("get", r.id, 400, "VALIDATION_ERROR", "Invalid paste ID"))]
            ELSE [db |-> d,
                  req |-> [r EXCEPT !.pc = "loaded", !.found = r.id \in DOMAIN d,
                                    !.paste = IF r.id \in DOMAIN d THEN d[r.id] ELSE NoPaste]]
      [] r.pc = "loaded" ->
            IF ~r.found
            THEN [db |-> d, req |-> Done(r, ErrorResp("get", r.id, 404, "NOT_FOUND", "Paste not found"))]
            ELSE IF isExpired(r.paste, now)
            THEN IF ~r.paste.isExpired
                 THEN IF r.id \in DOMAIN d
                      THEN [db |-> PrismaSetExpired(d, r.id), req |-> [r EXCEPT !.pc = "marked"]]
                      ELSE failed
                 ELSE [db |-> d, req |-> Done(r, ExpiredResp(r, now))]
            ELSE IF r.id \in DOMAIN d
                 THEN LET d2 == PrismaIncrement(d, r.id)
                      IN  [db |-> d2, req |-> [r EXCEPT !.pc = "incremented", !.updated = d2[r.id]]]
                 ELSE failed
      [] r.pc = "marked" ->
            [db |-> d, req |-> Done(r, ExpiredResp(r, now))]
      [] r.pc = "incremented" ->
            IF r.updated.maxViews # Null /\ r.updated.viewCount >= r.updated.maxViews
            THEN IF r.id \in DOMAIN d
                 THEN [db |-> PrismaSetExpired(d, r.id), req |-> [r EXCEPT !.pc = "flagged"]]
                 ELSE failed
            ELSE [db |-> d, req |-> Done(r, PasteResp(r))]
      [] OTHER -> \* pc = "flagged"
            [db |-> d, req |-> Done(r, PasteResp(r))]

\* routes/pastes.ts  router.get('/:id/raw')
RawStep(d, r, now) ==
    CASE r.pc = "start" ->
            [db |-> d,
             req |-> [r EXCEPT !.pc = "loaded", !.found = r.id \in DOMAIN d,
                               !.paste = IF r.id \in DOMAIN d THEN d[r.id] ELSE NoPaste]]
      [] r.pc = "loaded" ->
            IF ~r.found
            THEN [db |-> d, req |-> Done(r, ErrorResp("raw", r.id, 404, "", "Paste not found"))]
            ELSE IF isExpired(r.paste, now)
            THEN [db |-> d, req |-> Done(r, ErrorResp("raw", r.id, 410, "", "Paste has expired"))]
            ELSE IF r.id \in DOMAIN d
                 THEN [db |-> PrismaIncrement(d, r.id), req |-> [r EXCEPT !.pc = "incremented"]]
                 ELSE [db |-> d, req |-> Done(r, ErrorResp("raw", r.id, 500, "", "Internal server error"))]
      [] OTHER -> \* pc = "incremented"
            [db |-> d,
             req |-> Done(r, [NoResp EXCEPT !.op = "raw", !.id = r.id, !.status = 200,
                                            !.hasContent = TRUE, !.content = r.paste.content])]

\* routes/cleanup.ts  router.get('/'): updateMany, then the raw UPDATE, then the report
SweepStep(d, r, now) ==
    CASE r.pc = "start" ->
            LET verdict == verifyCronSecret(env, r.auth)
                ids == {id \in DOMAIN d : TimeExpiredWhere(d[id], now)}
            IN  IF verdict # "next"
                THEN [db |-> d, req |-> Done(r, Unauthorized(r, verdict))]
                ELSE [db |-> SetExpiredMany(d, ids),
                      req |-> [r EXCEPT !.pc = "timeDone", !.now = now,
                                        !.timeExpired = Cardinality(ids)]]
      [] r.pc = "timeDone" ->
            LET ids == {id \in DOMAIN d : ViewExpiredWhere(d[id])}
            IN  [db |-> SetExpiredMany(d, ids),
                 req |-> [r EXCEPT !.pc = "viewDone", !.viewExpired = Cardinality(ids)]]
      [] OTHER -> \* pc = "viewDone"
            [db |-> d,
             req |-> Done(r, [NoResp EXCEPT !.op = "sweep", !.status = 200,
                                            !.timeExpired = r.timeExpired,
                                            !.viewExpired = r.viewExpired,
                                            !.total = r.timeExpired + r.viewExpired])]

\* routes/cleanup.ts  router.post('/purge'): count, deleteMany, then the report
PurgeStep(d, r, now) ==
    CASE r.pc = "start" ->
            LET verdict == verifyCronSecret(env, r.auth)
                retentionDays == RetentionDays(r.param)
            IN  IF verdict # "next"
                THEN [db |-> d, req |-> Done(r, Unauthorized(r, verdict))]
                ELSE [db |-> d,
                      req |-> [r EXCEPT !.pc = "counted", !.retentionDays = retentionDays,
                                        !.cutoffDate = CutoffDate(now, retentionDays)]]
      [] r.pc = "counted" ->
            LET ids == {id \in DOMAIN d : PurgeWhere(d[id], r.cutoffDate)}
            IN  [db |-> DeleteMany(d, ids),
                 req |-> [r EXCEPT !.pc = "deleted", !.purged = Cardinality(ids)]]
      [] OTHER -> \* pc = "deleted"
            [db |-> d,
             req |-> Done(r, [NoResp EXCEPT !.op = "purge", !.status = 200,
                                            !.retentionDays = r.retentionDays,
                                            !.cutoffDate = r.cutoffDate,
                                            !.purged = r.purged,
                                            !.param = r.param])]

RECURSIVE SumViewCount(_, _)
SumViewCount(d, ids) ==
    IF ids = {} THEN 0
    ELSE LET id == CHOOSE i \in ids : TRUE
         IN  d[id].viewCount + SumViewCount(d, ids \ {id})

\* routes/cleanup.ts 202-209: the queries of the Promise.all, in the order
\* they are issued; each is named after the field of the answer it fills
StatsQueries == <<"pastes", "active", "expired", "totalViews", "withTimeExpiry", "withViewLimit">>

\* the result of one of the queries on store d
StatsQuery(d, q) ==
    CASE q = "pastes" -> Cardinality(DOMAIN d)
      [] q = "active" -> Cardinality({id \in DOMAIN d : ~d[id].isExpired})
      [] q = "expired" -> Cardinality({id \in DOMAIN d : d[id].isExpired})
      [] q = "totalViews" -> SumViewCount(d, DOMAIN d)
      [] q = "withTimeExpiry" -> Cardinality({id \in DOMAIN d : d[id].expiresAt # Null})
      [] OTHER -> Cardinality({id \in DOMAIN d : d[id].maxViews # Null})

\* the queries of request r that have not run yet
StatsPending(r) == {i \in DOMAIN StatsQueries : r.resp[StatsQueries[i]] = Null}

\* routes/cleanup.ts  router.get('/stats'), one store call at a time: query i
\* runs when it is pending, the answer is built when none is
StatsQueryStep(d, r, i) ==
    IF r.pc = "start" THEN
        LET verdict == verifyCronSecret(env, r.auth)
        IN  IF verdict # "next"
            THEN [db |-> d, req |-> Done(r, Unauthorized(r, verdict))]
            ELSE [db |-> d, req |-> [r EXCEPT !.pc = "querying"]]
    ELSE IF i \in StatsPending(r)
    THEN [db |-> d, req |-> [r EXCEPT !.resp[StatsQueries[i]] = StatsQuery(d, StatsQueries[i])]]
    ELSE [db |-> d,
          req |-> Done(r, [r.resp EXCEPT
                      !.op = "stats", !.status = 200,
                      !.noExpiry = r.resp.pastes
                                     - Max(r.resp.withTimeExpiry, r.resp.withViewLimit)])]

\* the statistics with their queries run in the order they are issued
StatsStep(d, r, now) ==
    StatsQueryStep(d, r, IF StatsPending(r) = {} THEN 0
                         ELSE CHOOSE i \in StatsPending(r) : \A k \in StatsPending(r) : i <= k)

Step(d, r, now) ==
    CASE r.kind = "create" -> CreateStep(d, r, now)
      [] r.kind = "get" -> GetStep(d, r, now)
      [] r.kind = "raw" -> RawStep(d, r, now)
      [] r.kind = "sweep" -> SweepStep(d, r, now)
      [] r.kind = "stats" -> StatsStep(d, r, now)
      [] OTHER -> PurgeStep(d, r, now)

\* a handler run from request r to its answer with no other request in between
RECURSIVE Run(_, _, _)
Run(d, r, now) ==
    IF r.pc = "done" THEN [db |-> d, req |-> r]
    ELSE LET s == Step(d, r, now) IN Run(s.db, s.req, now)

(***************************************************************************)
(* History kept for the properties: served counts, per stored paste, the   *)
(* answers to GET /:id and GET /:id/raw that carried its content           *)
(***************************************************************************)
NextHist(h, resp, d2) ==
    [id \in GenIds |->
        IF id \notin DOMAIN d2 THEN 0
        ELSE IF resp.op \in {"get", "raw"} /\ resp.id = id /\ resp.hasContent THEN h[id] + 1
        ELSE h[id]]

\* fetches of paste id that are in flight
InFlightFetches(id) ==
    BagCardinality([r \in {q \in BagToSet(reqs) : q.kind \in {"get", "raw"} /\ q.id = id}
                        |-> reqs[r]])

\* a paste without a view limit is fetched until it has MaxUnlimitedViews views
FetchAllowed(id) ==
    (id \in DOMAIN db /\ db[id].maxViews = Null)
        => db[id].viewCount + InFlightFetches(id) < MaxUnlimitedViews

(***************************************************************************)
(* Incoming requests                                                       *)
(***************************************************************************)
\* generatePasteId draws the id at random: an id not used before (ids are
\* opaque, so the model takes the first unused one), or the id of a stored
\* paste, the collision CreateStep rejects.  An id of a purged paste is not
\* drawn again.
FreshIds ==
    LET unused == GenIds \ (DOMAIN db \cup retired)
    IN  IF unused = {} THEN {} ELSE {CHOOSE id \in unused : TRUE}

CreateBodies ==
    {[content |-> c, expiresIn |-> e, maxViews |-> m] :
        c \in Contents, e \in ExpiresInInputs, m \in MaxViewsInputs}

\* the handler generates the id after the validation: a request whose body
\* is rejected draws none
CreateReqs ==
    {NewReq("create", id, body, <<>>) :
        id \in DOMAIN db \cup FreshIds,
        body \in {b \in CreateBodies : CreatePasteSchema(b).success}}
    \cup {NewReq("create", <<>>, body, <<>>) :
            body \in {b \in CreateBodies : ~CreatePasteSchema(b).success}}

GetReqs == {NewReq("get", id, NoBody, <<>>) : id \in {i \in PathIds : FetchAllowed(i)}}

RawReqs == {NewReq("raw", id, NoBody, <<>>) : id \in {i \in PathIds : FetchAllowed(i)}}

\* the store and the bookkeeping after a step or a run s; rest are the other requests
Effect(s, rest) ==
    /\ db' = s.db
    /\ retired' = retired \cup ((DOMAIN db) \ (DOMAIN s.db))
    /\ IF s.req.pc = "done"
       THEN /\ last' = s.req.resp
            /\ reqs' = rest
            /\ served' = NextHist(served, s.req.resp, s.db)
       ELSE /\ last' = NoResp
            /\ reqs' = rest (+) SetToBag({s.req})
            /\ served' = NextHist(served, NoResp, s.db)
    /\ UNCHANGED <<clock, ticks>>

\* the process environment of Spec, ConcSpec and InputSpec
OpenEnv == [production |-> FALSE, secret |-> <<>>]

Clients == {"c1", "c2"}

\* the store of a rate limiter: per key, the hits in its current window and
\* the time the window ends
EmptyStore == [k \in {} |-> [hits |-> 0, resetAt |-> 0]]

\* no key has hit any limiter
NoLimits == [global |-> EmptyStore, create |-> EmptyStore, get |-> EmptyStore,
             cleanup |-> EmptyStore]

NoneAccepted == [c \in Clients |-> [create |-> 0, cleanup |-> 0]]

\* Spec, ConcSpec and InputSpec leave the middleware state alone
GateIdle == UNCHANGED <<env, limits, accepted>>

Init ==
    /\ db = [id \in {} |-> NoPaste]
    /\ clock = 0
    /\ ticks = 0
    /\ retired = {}
    /\ reqs = EmptyBag
    /\ started = 0
    /\ last = NoResp
    /\ served = [id \in GenIds |-> 0]
    /\ env = OpenEnv
    /\ limits = NoLimits
    /\ accepted = NoneAccepted

\* time passes
Tick ==
    /\ ticks < MaxTicks
    /\ \E step \in TickSteps : clock' = clock + step
    /\ ticks' = ticks + 1
    /\ last' = NoResp
    /\ UNCHANGED <<db, retired, reqs, started, served>>
    /\ GateIdle

(***************************************************************************)
(* Spec: requests are served one after the other                           *)
(***************************************************************************)
Serve(r) ==
    /\ Effect(Run(db, r, clock), reqs)
    /\ UNCHANGED started
    /\ GateIdle

Idle == reqs = EmptyBag

CreatePaste ==
    /\ Idle
    /\ \E r \in CreateReqs : Serve(r)

GetPaste ==
    /\ Idle
    /\ \E r \in GetReqs : Serve(r)

GetRaw ==
    /\ Idle
    /\ \E r \in RawReqs : Serve(r)

Sweep ==
    /\ Idle
    /\ Serve(NewReq("sweep", <<>>, NoBody, <<>>))

Purge ==
    /\ Idle
    /\ \E p \in RetentionInputs : Serve(NewReq("purge", <<>>, NoBody, p))

Next == CreatePaste \/ GetPaste \/ GetRaw \/ Sweep \/ Purge \/ Tick

Spec == Init /\ [][Next]_vars

(***************************************************************************)
(* ConcSpec: the steps of up to MaxInFlight requests interleave            *)
(***************************************************************************)
CanBegin == BagCardinality(reqs) < MaxInFlight /\ started < MaxStarted

Begin(r) ==
    /\ started' = started + 1
    /\ Effect(Step(db, r, clock), reqs)
    /\ GateIdle

InFlight(kind) == {r \in BagToSet(reqs) : r.kind = kind}

Continue(r) ==
    /\ Effect(Step(db, r, clock), reqs (-) SetToBag({r}))
    /\ UNCHANGED started
    /\ GateIdle

\* ConcSpec studies the interleavings: its requests carry valid input only
\* (Spec covers the rejected input), and purge is called without the
\* parameter or with the retention that reaches every expired paste
ConcCreateReqs == {r \in CreateReqs : CreatePasteSchema(r.body).success /\ r.body.expiresIn # 0}

ConcFetchIds == {id \in GenIds : FetchAllowed(id)}

ConcPurgeInputs == {Absent, <<"-", "1">>}

BeginCreate ==
    /\ CanBegin
    /\ \E r \in ConcCreateReqs : Begin(r)

BeginGet ==
    /\ CanBegin
    /\ \E id \in ConcFetchIds : Begin(NewReq("get", id, NoBody, <<>>))

BeginRaw ==
    /\ CanBegin
    /\ \E id \in ConcFetchIds : Begin(NewReq("raw", id, NoBody, <<>>))

BeginSweep ==
    /\ CanBegin
    /\ Begin(NewReq("sweep", <<>>, NoBody, <<>>))

BeginPurge ==
    /\ CanBegin
    /\ \E p \in ConcPurgeInputs : Begin(NewReq("purge", <<>>, NoBody, p))

ContinueCreate ==
    /\ reqs # EmptyBag
    /\ \E r \in InFlight("create") : Continue(r)

ContinueGet ==
    /\ reqs # EmptyBag
    /\ \E r \in InFlight("get") : Continue(r)

ContinueRaw ==
    /\ reqs # EmptyBag
    /\ \E r \in InFlight("raw") : Continue(r)

ContinueSweep ==
    /\ reqs # EmptyBag
    /\ \E r \in InFlight("sweep") : Continue(r)

ContinuePurge ==
    /\ reqs # EmptyBag
    /\ \E r \in InFlight("purge") : Continue(r)

ConcNext ==
    \/ BeginCreate \/ BeginGet \/ BeginRaw \/ BeginSweep \/ BeginPurge
    \/ ContinueCreate \/ ContinueGet \/ ContinueRaw \/ ContinueSweep \/ ContinuePurge
    \/ Tick

ConcSpec == Init /\ [][ConcNext]_vars

(***************************************************************************)
(* InputSpec: the bodies and path ids the validation decides on.  A        *)
(* request is received (it waits in reqs at pc "start") and then handled   *)
(* to its answer, one request at a time; creates are received while fewer  *)
(* than MaxInputPastes pastes are stored.  Every body encodes to less than *)
(* the 1mb the body parser admits.                                         *)
(***************************************************************************)
MaxInputPastes == 1

InputContents ==
    { <<>>,
      <<Rep(" ", 1)>>,
      <<Rep(" ", 2), Rep("LF", 1), Rep("TAB", 1)>>,
      <<Rep(" ", 1), Rep("h", 1), Rep(" ", 1)>>,
      <<Rep("h", 1)>>,
      <<Rep("h", MAX_CONTENT_SIZE)>>,
      <<Rep("h", MAX_CONTENT_SIZE + 1)>>,
      <<Rep("EMOJI", MAX_CONTENT_SIZE \div 4)>>,
      <<Rep("EMOJI", MAX_CONTENT_SIZE \div 4), Rep("h", 1)>>,
      <<Rep("EURO", 200000)>> }

InputExpiresIn == {Null, 0, 1, DEFAULT_RETENTION * MinutesPerDay, MAX_EXPIRES_IN,
                   MAX_EXPIRES_IN + 1, -2}

InputMaxViews == {Null, 0, 1}

\* each field is varied with the other two at a plain value
InputBodies ==
    {[content |-> c, expiresIn |-> Null, maxViews |-> Null] : c \in InputContents}
    \cup {[content |-> <<Rep("h", 1)>>, expiresIn |-> e, maxViews |-> m] :
             e \in InputExpiresIn, m \in InputMaxViews}

InputCreateReqs ==
    {NewReq("create", id, body, <<>>) :
        id \in FreshIds, body \in {b \in InputBodies : CreatePasteSchema(b).success}}
    \cup {NewReq("create", <<>>, body, <<>>) :
            body \in {b \in InputBodies : ~CreatePasteSchema(b).success}}

\* path ids: the generated ones, a well-formed id of 20 characters, one of
\* 21, and ids with characters outside [a-zA-Z0-9]
InputPathIds ==
    GenIds \cup { [i \in 1..ID_MAX_LEN |-> "a"],
                  [i \in 1..(ID_MAX_LEN + 1) |-> "a"],
                  <<".", ".", "/", "e", "t", "c">>,
                  <<"a", "-", "b">>,
                  <<"a", " ">> }

Receive(r) ==
    /\ reqs' = SetToBag({r})
    /\ last' = NoResp
    /\ UNCHANGED <<db, clock, ticks, retired, started, served>>
    /\ GateIdle

ReceiveCreate ==
    /\ Idle
    /\ Cardinality(DOMAIN db) < MaxInputPastes
    /\ \E r \in InputCreateReqs : Receive(r)

ReceiveGet ==
    /\ Idle
    /\ \E id \in {i \in InputPathIds : FetchAllowed(i)} : Receive(NewReq("get", id, NoBody, <<>>))

Handle(r) ==
    /\ Effect(Run(db, r, clock), EmptyBag)
    /\ UNCHANGED started
    /\ GateIdle

HandleCreate ==
    /\ reqs # EmptyBag
    /\ \E r \in InFlight("create") : Handle(r)

HandleGet ==
    /\ reqs # EmptyBag
    /\ \E r \in InFlight("get") : Handle(r)

InputNext == ReceiveCreate \/ ReceiveGet \/ HandleCreate \/ HandleGet \/ Tick

InputSpec == Init /\ [][InputNext]_vars

(***************************************************************************)
(* lib/ratelimit.ts and server.ts: the rate limiters (express-rate-limit   *)
(* with its memory store) in front of the routes.  Windows are in minutes. *)
(***************************************************************************)
GLOBAL_WINDOW == 15

GLOBAL_MAX == 1000

CREATE_WINDOW == 1

CREATE_MAX == 10

GET_WINDOW == 1

GET_MAX == 100

CLEANUP_WINDOW == 60

CLEANUP_MAX == 10

\* the address a client connects from
SocketAddr(c) == IF c = "c1" THEN "ip1" ELSE "ip2"

\* req.ip with app.set('trust proxy', 1): the last address of
\* X-Forwarded-For when the header is there, else the socket address
ReqIp(r) == IF r.xff # <<>> THEN r.xff[Len(r.xff)] ELSE SocketAddr(r.client)

\* lib/ratelimit.ts  getClientIP: first address of X-Forwarded-For, else
\* X-Real-IP, else req.ip
getClientIP(r) ==
    IF r.xff # <<>> THEN Head(r.xff)
    ELSE IF r.realIp # "" THEN r.realIp
    ELSE ReqIp(r)

\* store.increment(key): a new window when the key has none that is current
Increment(store, key, now, window) ==
    IF key \in DOMAIN store /\ now < store[key].resetAt
    THEN [store EXCEPT ![key].hits = @ + 1]
    ELSE (key :> [hits |-> 1, resetAt |-> now + window])
            @@ [k \in (DOMAIN store) \ {key} |-> store[k]]

\* store.decrement(key)
Decrement(store, key, now) ==
    IF key \in DOMAIN store /\ now < store[key].resetAt /\ store[key].hits > 0
    THEN [store EXCEPT ![key].hits = @ - 1]
    ELSE store

\* the windows that have ended are dropped
Expire(store, now) == [k \in {j \in DOMAIN store : now < store[j].resetAt} |-> store[k]]

Hits(store, key) == IF key \in DOMAIN store THEN store[key].hits ELSE 0

\* the 429 of a limiter
TooMany(r, message) == ErrorResp(r.kind, <<>>, 429, "RATE_LIMIT_EXCEEDED", message)

\* a limiter that answers 429 and calls next all the same
LimitedStillHandles(rejected, d, r, now, message) ==
    LET s == Run(d, r, now)
    IN  IF rejected THEN [db |-> s.db, req |-> Done(r, TooMany(r, message))] ELSE s

\* a route limiter ahead of the handler: 429 when the hits exceed max, the
\* handler otherwise
Limited(rejected, d, r, now, message) ==
    IF rejected THEN [db |-> d, req |-> Done(r, TooMany(r, message))]
    ELSE Run(d, r, now)

\* server.ts 106-110: createPasteLimiter, keyed by getClientIP, then the
\* handler; with skipFailedRequests the hit is taken back when the response
\* has a status of 400 or more (the 429 of the limiter included)
CreateRoute(d, lim, r, now) ==
    LET key == getClientIP(r)
        store == Increment(lim.create, key, now, CREATE_WINDOW)
        s == Limited(store[key].hits > CREATE_MAX, d, r, now,
                     "Too many pastes created. Please wait before creating more.")
        after == IF s.req.resp.status >= 400 THEN Decrement(store, key, now) ELSE store
    IN  [db |-> s.db, req |-> s.req, limits |-> [lim EXCEPT !.create = after]]

\* server.ts 110-112: getPasteLimiter, keyed by getClientIP, then the handler
GetRoute(d, lim, r, now) ==
    LET key == getClientIP(r)
        store == Increment(lim.get, key, now, GET_WINDOW)
        s == Limited(store[key].hits > GET_MAX, d, r, now,
                     "Too many requests. Please slow down.")
    IN  [db |-> s.db, req |-> s.req, limits |-> [lim EXCEPT !.get = store]]

\* routes/cleanup.ts 56, 136: cleanupRateLimiter, keyed by req.ip, then
\* verifyCronSecret and the handler
CleanupRoute(d, lim, r, now) ==
    LET key == ReqIp(r)
        store == Increment(lim.cleanup, key, now, CLEANUP_WINDOW)
        s == Limited(store[key].hits > CLEANUP_MAX, d, r, now,
                     "Cleanup rate limit exceeded.")
    IN  [db |-> s.db, req |-> s.req, limits |-> [lim EXCEPT !.cleanup = store]]

\* server.ts 51: globalRateLimiter ahead of every route, then the route
GateRun(d, lim, r, now) ==
    LET key == getClientIP(r)
        lim1 == [lim EXCEPT !.global = Increment(lim.global, key, now, GLOBAL_WINDOW)]
    IN  IF lim1.global[key].hits > GLOBAL_MAX
        THEN [db |-> d, limits |-> lim1,
              req |-> Done(r, TooMany(r, "Too many requests. Please try again later."))]
        ELSE CASE r.kind = "create" -> CreateRoute(d, lim1, r, now)
               [] r.kind \in {"get", "raw"} -> GetRoute(d, lim1, r, now)
               [] r.kind \in {"sweep", "purge"} -> CleanupRoute(d, lim1, r, now)
               [] OTHER -> \* routes/cleanup.ts 193: the statistics have verifyCronSecret only
                           LET s == Run(d, r, now)
                           IN  [db |-> s.db, req |-> s.req, limits |-> lim1]

\* the requests the properties count: creates answered 201 in the current
\* minute, cleanup calls answered 200 in the current hour
NextAccepted(acc, r, resp) ==
    IF r.kind = "create" /\ resp.status = 201
    THEN [acc EXCEPT ![r.client].create = @ + 1]
    ELSE IF r.kind \in {"sweep", "purge"} /\ resp.status = 200
    THEN [acc EXCEPT ![r.client].cleanup = @ + 1]
    ELSE acc

\* a request arrives and waits for its turn
GateReceive(r) ==
    /\ reqs' = SetToBag({r})
    /\ last' = NoResp
    /\ UNCHANGED <<db, clock, ticks, retired, started, served, env, limits, accepted>>

\* the waiting request goes through the limiters and its handler
GateHandle(r) ==
    LET s == GateRun(db, limits, r, clock)
    IN  /\ Effect(s, EmptyBag)
        /\ limits' = s.limits
        /\ accepted' = NextAccepted(accepted, r, s.req.resp)
        /\ UNCHANGED <<started, env>>

\* a minute passes with no request waiting
GateTick ==
    /\ Idle
    /\ ticks < MaxTicks
    /\ clock' = clock + 1
    /\ ticks' = ticks + 1
    /\ last' = NoResp
    /\ limits' = [name \in DOMAIN limits |-> Expire(limits[name], clock + 1)]
    /\ accepted' = [c \in Clients |-> [accepted[c] EXCEPT !.create = 0]]
    /\ UNCHANGED <<db, retired, reqs, started, served, env>>

(***************************************************************************)
(* AuthSpec: the cleanup routes under every environment, called with and   *)
(* without the secret, on a store of at most MaxAuthPastes pastes.  The    *)
(* caller c1 sends at most MaxAuthRequests requests, all of them after the *)
(* clock has stopped advancing; c2 creates the pastes.                     *)
(***************************************************************************)
MaxAuthRequests == 11

MaxAuthPastes == 1

Secret == <<"s", "3", "c">>

Envs == {[production |-> p, secret |-> k] : p \in BOOLEAN, k \in {<<>>, Secret}}

\* the requests c1 has sent in the current window of the global limiter
AuthSent == Hits(limits.global, SocketAddr("c1"))

\* Authorization headers: none, the exact one, a wrong secret, the secret
\* without the scheme, the scheme in lower case, a trailing blank
AuthHeaders ==
    { <<>>,
      Bearer(Secret),
      Bearer(<<"s", "3">>),
      Secret,
      <<"b", "e", "a", "r", "e", "r", " ">> \o Secret,
      Bearer(Secret) \o <<" ">> }

From(r, client, auth) == [r EXCEPT !.client = client, !.auth = auth]

AuthInit ==
    /\ db = [id \in {} |-> NoPaste]
    /\ clock = 0
    /\ ticks = 0
    /\ retired = {}
    /\ reqs = EmptyBag
    /\ started = 0
    /\ last = NoResp
    /\ served = [id \in GenIds |-> 0]
    /\ env \in Envs
    /\ limits = NoLimits
    /\ accepted = NoneAccepted

AuthReceiveCreate ==
    /\ Idle
    /\ AuthSent = 0
    /\ Cardinality(DOMAIN db) < MaxAuthPastes
    /\ \E id \in FreshIds : GateReceive(From(NewReq("create", id,
                           [content |-> <<Rep("h", 1)>>, expiresIn |-> 1, maxViews |-> Null],
                           <<>>), "c2", <<>>))

AuthReceiveSweep ==
    /\ Idle
    /\ AuthSent < MaxAuthRequests
    /\ \E h \in AuthHeaders : GateReceive(From(NewReq("sweep", <<>>, NoBody, <<>>), "c1", h))

AuthReceivePurge ==
    /\ Idle
    /\ AuthSent < MaxAuthRequests
    /\ \E h \in {<<>>, Bearer(Secret), Bearer(<<"s", "3">>)} :
          GateReceive(From(NewReq("purge", <<>>, NoBody, <<"-", "1">>), "c1", h))

AuthReceiveStats ==
    /\ Idle
    /\ AuthSent < MaxAuthRequests
    /\ \E h \in {<<>>, Bearer(Secret), Bearer(<<"s", "3">>)} : GateReceive(From(NewReq("stats", <<>>, NoBody, <<>>), "c1", h))

AuthHandle ==
    /\ reqs # EmptyBag
    /\ \E r \in BagToSet(reqs) : GateHandle(r)

AuthTick ==
    /\ AuthSent = 0
    /\ GateTick

AuthNext ==
    \/ AuthReceiveCreate \/ AuthReceiveSweep \/ AuthReceivePurge \/ AuthReceiveStats
    \/ AuthHandle \/ AuthTick

AuthSpec == AuthInit /\ [][AuthNext]_vars

(***************************************************************************)
(* LimitSpec: the paste routes behind their limiters.  Client c1 sends     *)
(* its requests bare, with an X-Forwarded-For header or with an X-Real-IP  *)
(* header that name the address of c2; client c2 sends its requests bare.  *)
(* At most MaxLimitCreates POSTs are sent; the fetches all come from c1,   *)
(* for the one paste it has created, until the global limiter has         *)
(* rejected one.  The clock advances once a window of the create limiter   *)
(* is used up.                                                             *)
(***************************************************************************)
MaxLimitCreates == 12

\* generatePasteId in LimitSpec: the n-th id drawn
LimitId(n) ==
    <<"2", "3", "4", "5", "6", "7", "8">>
        \o <<(<<"a", "b", "c", "d", "e", "f", "g", "h", "j", "k", "m", "n", "p", "q", "r", "s">>)[n]>>

\* what the four senders put on a request
Senders ==
    { [client |-> "c1", xff |-> <<>>, realIp |-> ""],
      [client |-> "c1", xff |-> <<SocketAddr("c2")>>, realIp |-> ""],
      [client |-> "c1", xff |-> <<>>, realIp |-> SocketAddr("c2")],
      [client |-> "c2", xff |-> <<>>, realIp |-> ""] }

SentBy(r, s) == [r EXCEPT !.client = s.client, !.xff = s.xff, !.realIp = s.realIp]

\* a paste that never expires, and a body the validation rejects
LimitBody == [content |-> <<Rep("h", 1)>>, expiresIn |-> Null, maxViews |-> Null]

\* the requests sent so far (the windows of the global limiter outlast the model)
Sent == Hits(limits.global, SocketAddr("c1")) + Hits(limits.global, SocketAddr("c2"))

\* c1 has created one paste, bare, and nothing else but fetches has been sent
FetchPhase ==
    /\ ticks = 0
    /\ DOMAIN db = {LimitId(1)}
    /\ Hits(limits.create, SocketAddr("c1")) = 1
    /\ Hits(limits.global, SocketAddr("c2")) = 0
    /\ Hits(limits.global, SocketAddr("c1")) = 1 + Hits(limits.get, SocketAddr("c1"))

LimitReceiveCreate ==
    /\ Idle
    /\ limits.get = EmptyStore
    /\ Sent < MaxLimitCreates
    /\ \E s \in Senders :
          GateReceive(SentBy(NewReq("create", LimitId(Cardinality(DOMAIN db) + 1),
                                    LimitBody, <<>>), s))

LimitReceiveRejected ==
    /\ Idle
    /\ limits.get = EmptyStore
    /\ Sent < MaxLimitCreates
    /\ GateReceive(SentBy(NewReq("create", <<>>, NoBody, <<>>),
                          [client |-> "c1", xff |-> <<>>, realIp |-> ""]))

LimitReceiveGet ==
    /\ Idle
    /\ FetchPhase
    /\ \E kind \in {"get", "raw"} :
          GateReceive(SentBy(NewReq(kind, LimitId(1), NoBody, <<>>),
                             [client |-> "c1", xff |-> <<>>, realIp |-> ""]))

LimitHandle ==
    /\ reqs # EmptyBag
    /\ \E r \in BagToSet(reqs) : GateHandle(r)

\* the minute passes once a sender has used up a window of the create limiter
LimitTick ==
    /\ limits.get = EmptyStore
    /\ \E key \in DOMAIN limits.create : limits.create[key].hits >= CREATE_MAX
    /\ GateTick

LimitNext ==
    \/ LimitReceiveCreate \/ LimitReceiveRejected \/ LimitReceiveGet
    \/ LimitHandle \/ LimitTick

LimitSpec == Init /\ [][LimitNext]_vars

(***************************************************************************)
(* IdSpec: lib/utils.ts generatePasteId.  One paste is created under an id *)
(* of the generator and fetched by that id.  The ids of IdSpec have every  *)
(* symbol of the alphabet at every position.                               *)
(***************************************************************************)
ID_LENGTH == 8

\* the alphabet with the lower-case l left in
ALPHABETWithLookalike ==
    (Digits \ {"0", "1"}) \cup (Letters \ {"I", "O", "i", "o"})

\* the alphabet of nanoid itself, which has _ and - besides letters and digits
ALPHABETUrlSafe == Digits \cup Letters \cup {"_", "-"}

\* const ALPHABET = '23456789ABCDEFGHJKLMNPQRSTUVWXYZabcdefghjkmnpqrstuvwxyz'
ALPHABET ==
    {"2", "3", "4", "5", "6", "7", "8", "9",
     "A", "B", "C", "D", "E", "F", "G", "H", "J", "K", "L", "M", "N",
     "P", "Q", "R", "S", "T", "U", "V", "W", "X", "Y", "Z",
     "a", "b", "c", "d", "e", "f", "g", "h", "j", "k", "m", "n",
     "p", "q", "r", "s", "t", "u", "v", "w", "x", "y", "z"}

\* customAlphabet(ALPHABET, ID_LENGTH)(): ID_LENGTH symbols of ALPHABET; the
\* ids drawn in IdSpec vary one position over the whole alphabet
generatePasteId ==
    {[i \in 1..ID_LENGTH |-> IF i = k THEN c ELSE "2"] : k \in 1..ID_LENGTH, c \in ALPHABET}

IdReceiveCreate ==
    /\ Idle
    /\ DOMAIN db = {}
    /\ \E id \in generatePasteId : Receive(NewReq("create", id, LimitBody, <<>>))

IdReceiveGet ==
    /\ Idle
    /\ \E id \in {i \in DOMAIN db : FetchAllowed(i)} : Receive(NewReq("get", id, NoBody, <<>>))

IdNext == IdReceiveCreate \/ IdReceiveGet \/ HandleCreate \/ HandleGet

IdSpec == Init /\ [][IdNext]_vars

(***************************************************************************)
(* StatsSpec: the statistics while the store changes.  The queries of a    *)
(* statistics request run one at a time, in any order, and between them    *)
(* creates, fetches, sweeps and purges are served, all at one instant.  A  *)
(* behaviour has at most MaxStarted requests, and one statistics request   *)
(* at a time.                                                              *)
(***************************************************************************)
\* a request is served from start to answer, between the steps of the others
ServeNow(r) ==
    /\ started < MaxStarted
    /\ started' = started + 1
    /\ Effect(Run(db, r, clock), reqs)
    /\ GateIdle

StatsBegin ==
    /\ Idle
    /\ CanBegin
    /\ Begin(NewReq("stats", <<>>, NoBody, <<>>))

\* a pending query runs, or the answer is sent when none is pending
StatsContinue ==
    /\ reqs # EmptyBag
    /\ \E r \in InFlight("stats") :
          \E i \in (IF StatsPending(r) = {} THEN {0} ELSE StatsPending(r)) :
              /\ Effect(StatsQueryStep(db, r, i), reqs (-) SetToBag({r}))
              /\ UNCHANGED started
              /\ GateIdle

StatsNext ==
    \/ \E r \in {c \in ConcCreateReqs : c.body.maxViews # 2} : ServeNow(r)
    \/ \E id \in ConcFetchIds : ServeNow(NewReq("get", id, NoBody, <<>>))
    \/ ServeNow(NewReq("sweep", <<>>, NoBody, <<>>))
    \/ ServeNow(NewReq("purge", <<>>, NoBody, <<"0">>))
    \/ StatsBegin
    \/ StatsContinue

StatsSpec == Init /\ [][StatsNext]_vars

(***************************************************************************)
(* Properties.  In Spec every step is one request served (or a Tick), and  *)
(* last' is the answer of that step: a step with last'.op = "get" and      *)
(* last'.id = id is a GET /api/pastes/:id of id served from the store db.  *)
(***************************************************************************)
ViewLimitReached(row) == row.maxViews # Null /\ row.viewCount >= row.maxViews

TimeLimitPassed(row, now) == row.expiresAt # Null /\ row.expiresAt < now

\* C1: a GET /:id of a stored paste whose viewCount has reached its maxViews is
\* answered 410 PASTE_EXPIRED without the content, whether or not the stored
\* isExpired flag is set.
C1_ViewLimitNeverServed ==
    [][\A id \in DOMAIN db :
          (ViewLimitReached(db[id]) /\ last'.op = "get" /\ last'.id = id)
              => /\ last'.status = 410
                 /\ last'.code = "PASTE_EXPIRED"
                 /\ ~last'.hasContent]_vars

\* a GET answered 410 for the view limit on a paste whose views reached the limit
C1_Witness ==
    \E id \in DOMAIN db :
        /\ ViewLimitReached(db[id])
        /\ last.op = "get" /\ last.id = id /\ last.status = 410
        /\ last.message = REASON_VIEWS

\* C2: once the clock has passed expiresAt, the paste stays past its expiry
\* (expiresAt does not change, the clock does not go back) and every GET /:id
\* and GET /:id/raw of it is answered 410 without the content.
C2_TimeLimitNeverServed ==
    [][\A id \in DOMAIN db :
          TimeLimitPassed(db[id], clock)
              => /\ clock' >= clock
                 /\ id \in DOMAIN db' => db'[id].expiresAt = db[id].expiresAt
                 /\ (last'.op \in {"get", "raw"} /\ last'.id = id)
                        => (last'.status = 410 /\ ~last'.hasContent)]_vars

\* a raw fetch answered 410 on a paste past its expiresAt that nothing had flagged
C2_Witness ==
    \E id \in DOMAIN db :
        /\ TimeLimitPassed(db[id], clock)
        /\ ~db[id].isExpired
        /\ ~ViewLimitReached(db[id])
        /\ last.op = "raw" /\ last.id = id /\ last.status = 410

\* C3: the viewCount of every stored paste equals the number of fetches
\* (GET /:id and GET /:id/raw) that were answered with its content: a fetch
\* that serves the content adds 1, any other fetch adds 0.
C3_ViewCountIsServed == \A id \in DOMAIN db : db[id].viewCount = served[id]

\* a paste served twice, then fetched again and refused
C3_Witness ==
    \E id \in DOMAIN db :
        /\ served[id] = 2
        /\ last.op \in {"get", "raw"} /\ last.id = id /\ last.status = 410

\* C4: for a paste with maxViews = N and no time expiry, fetched by requests
\* that do not interleave: a GET /:id is answered 200 with the content exactly
\* while fewer than N fetches were served, it reports the viewCount it brought
\* about and the views that remain (the N-th: viewCount = N, remainingViews = 0),
\* and every GET /:id after the N-th served fetch is answered 410 with the
\* view-limit reason.
C4_FirstNViewsServed ==
    [][\A id \in DOMAIN db :
          (db[id].maxViews # Null /\ db[id].expiresAt = Null
              /\ last'.op = "get" /\ last'.id = id)
              => IF served[id] < db[id].maxViews
                 THEN /\ last'.status = 200
                      /\ last'.hasContent /\ last'.content = db[id].content
                      /\ last'.viewCount = served[id] + 1
                      /\ last'.remainingViews = db[id].maxViews - (served[id] + 1)
                 ELSE /\ last'.status = 410
                      /\ last'.message = REASON_VIEWS
                      /\ ~last'.hasContent]_vars

\* the second GET of a paste with maxViews = 2: viewCount 2, no views remain
C4_Witness ==
    /\ last.op = "get" /\ last.status = 200
    /\ last.maxViews = 2 /\ last.viewCount = 2 /\ last.remainingViews = 0
    /\ last.expiresAt = Null

\* C5: a GET /:id of a stored paste that the evaluator marks expired is
\* answered 410 without the content, leaves the paste stored with isExpired
\* true and its other fields as they were, and changes no other paste.
C5_ExpiredGetFrame ==
    [][\A id \in DOMAIN db :
          (isExpired(db[id], clock) /\ last'.op = "get" /\ last'.id = id)
              => /\ last'.status = 410
                 /\ ~last'.hasContent
                 /\ DOMAIN db' = DOMAIN db
                 /\ db'[id] = [db[id] EXCEPT !.isExpired = TRUE]
                 /\ \A other \in DOMAIN db \ {id} : db'[other] = db[other]]_vars

\* a GET refused for the time limit, with another paste stored and not flagged
C5_Witness ==
    \E id \in DOMAIN db :
        /\ last.op = "get" /\ last.id = id /\ last.status = 410
        /\ last.message = REASON_TIME
        /\ db[id].isExpired
        /\ \E other \in DOMAIN db \ {id} :
              ~db[other].isExpired /\ TimeLimitPassed(db[other], clock)

\* C6: GET /:id/raw leaves the store as GET /:id of the same id would have
\* left it (the flag persisted on an expired paste and on the view that
\* reaches maxViews).
C6_RawSameStoreEffectAsGet ==
    [][last'.op = "raw"
          => db' = Run(db, NewReq("get", last'.id, NoBody, <<>>), clock).db]_vars

\* C7: under every interleaving of the handlers' steps, a stored paste whose
\* isExpired flag is true keeps it true for as long as its row is stored.
C7_FlagSticky ==
    [][\A id \in DOMAIN db :
          (db[id].isExpired /\ id \in DOMAIN db') => db'[id].isExpired]_vars

\* a fetch that read the paste before it was flagged is about to write to it
C7_Witness ==
    \E id \in DOMAIN db :
        /\ db[id].isExpired
        /\ \E r \in BagToSet(reqs) :
              /\ r.kind \in {"get", "raw"} /\ r.id = id
              /\ r.pc = "loaded" /\ r.found /\ ~isExpired(r.paste, clock)

\* C8: a purge deletes no paste whose stored isExpired flag is false and
\* leaves such a paste as it was, whatever retentionDays is sent.
C8_PurgeKeepsUnflagged ==
    [][\A id \in DOMAIN db :
          (last'.op = "purge" /\ ~db[id].isExpired)
              => (id \in DOMAIN db' /\ db'[id] = db[id])]_vars

\* a purge deleted a paste and kept an unflagged one that is older than its cutoff
C8_Witness ==
    /\ last.op = "purge" /\ last.purged >= 1
    /\ \E id \in DOMAIN db :
          /\ ~db[id].isExpired
          /\ db[id].createdAt <= last.cutoffDate
          /\ TimeLimitPassed(db[id], clock)

\* the N a purge request supplies: the integer its parameter spells
SuppliedDays(param) == parseInt(param).val

SuppliesDays(param) == param # Absent /\ ~parseInt(param).nan /\ parseInt(param).val >= 0

\* C9: a purge that supplies a non-negative integer N (0 included) deletes
\* exactly the flagged pastes with createdAt <= now - N days, a purge without
\* the parameter does so with N = 7, and both report the number deleted.
C9_PurgeHonoursRetention ==
    [][(last'.op = "purge" /\ (last'.param = Absent \/ SuppliesDays(last'.param)))
          => LET N == IF last'.param = Absent THEN DEFAULT_RETENTION
                      ELSE SuppliedDays(last'.param)
                 gone == {id \in DOMAIN db :
                             db[id].isExpired
                                /\ db[id].createdAt <= clock - N * MinutesPerDay}
             IN  /\ db' = DeleteMany(db, gone)
                 /\ last'.purged = Cardinality(gone)]_vars

\* C10: a sweep at time now flags exactly the unflagged pastes with
\* expiresAt <= now or with maxViews set and viewCount >= maxViews, changes
\* nothing else, and reports as cleaned.total the number of pastes it flagged.
C10_SweepExact ==
    [][last'.op = "sweep"
          => LET due == {id \in DOMAIN db :
                            /\ ~db[id].isExpired
                            /\ \/ (db[id].expiresAt # Null /\ db[id].expiresAt <= clock)
                               \/ ViewLimitReached(db[id])}
             IN  /\ db' = [id \in DOMAIN db |->
                              IF id \in due THEN [db[id] EXCEPT !.isExpired = TRUE]
                              ELSE db[id]]
                 /\ last'.total = Cardinality(due)
                 /\ last'.status = 200]_vars

\* a sweep flagged both stored pastes, one of them due by time and by views
C10_Witness ==
    /\ last.op = "sweep" /\ last.total = 2
    /\ Cardinality(DOMAIN db) = 2
    /\ \E id \in DOMAIN db :
          /\ db[id].expiresAt # Null /\ db[id].expiresAt <= clock
          /\ ViewLimitReached(db[id])

\* C11: a sweep that directly follows a sweep, with no other request and no
\* passing of time between them, changes no row and reports timeExpired = 0,
\* viewExpired = 0 and total = 0.
C11_SweepIdempotent ==
    [][(last.op = "sweep" /\ last'.op = "sweep")
          => /\ db' = db
             /\ last'.timeExpired = 0
             /\ last'.viewExpired = 0
             /\ last'.total = 0]_vars

\* a sweep reported nothing while a paste past its expiresAt is stored, flagged
C11_Witness ==
    /\ last.op = "sweep" /\ last.total = 0
    /\ last.timeExpired = 0 /\ last.viewExpired = 0
    /\ \E id \in DOMAIN db :
          /\ db[id].isExpired
          /\ db[id].expiresAt # Null /\ db[id].expiresAt <= clock
          /\ ViewLimitReached(db[id])

\* C12: with GET /:id handlers interleaving, a GET answers with the content
\* only if the row it read had not reached its view limit, and the row a GET
\* reads is the stored row at that moment: a GET that reads the row once
\* viewCount >= maxViews is refused.  (The over-serving itself, viewCount >
\* maxViews with more than maxViews answers carrying the content, is the
\* reachable state C12_Witness.)
C12_LateReadRejected ==
    [][/\ \A r \in BagToSet(reqs') :
             (r.kind = "get" /\ r.pc = "loaded" /\ CopiesIn(r, reqs') > CopiesIn(r, reqs))
                 => /\ r.found = (r.id \in DOMAIN db)
                    /\ r.found => r.paste = db[r.id]
       /\ (last'.op = "get" /\ last'.hasContent)
             => \E r \in BagToSet(reqs) :
                   /\ reqs' = reqs (-) SetToBag({r})
                   /\ r.kind = "get" /\ r.id = last'.id
                   /\ r.found /\ ~ViewLimitReached(r.paste)]_vars

\* more answers carried the content than maxViews allows
C12_Witness ==
    \E id \in DOMAIN db :
        /\ db[id].maxViews # Null
        /\ db[id].viewCount > db[id].maxViews
        /\ served[id] > db[id].maxViews
        /\ last.op = "get" /\ last.id = id /\ last.hasContent

\* the create request r is answered in this step
CreateAnswered(r) ==
    /\ r.kind = "create" /\ r.pc = "start"
    /\ reqs' = EmptyBag
    /\ last'.op = "create"

\* C17: a create with expiresIn absent (null) or 0 that is answered 201 stores
\* its paste with expiresAt = null, one with expiresIn = m >= 1 stores it with
\* expiresAt = creation time + m minutes; a stored paste with expiresAt = null
\* keeps it null, and while it is neither flagged nor at its view limit every
\* GET /:id of it is answered 200 however much time has passed.
C17_ExpiresAtFromExpiresIn ==
    [][/\ \A r \in BagToSet(reqs) :
             (CreateAnswered(r) /\ last'.status = 201)
                 => /\ r.id \notin DOMAIN db /\ r.id \in DOMAIN db'
                    /\ db'[r.id].createdAt = clock
                    /\ IF r.body.expiresIn \in {Null, 0}
                       THEN db'[r.id].expiresAt = Null /\ last'.expiresAt = Null
                       ELSE /\ r.body.expiresIn >= 1
                            /\ db'[r.id].expiresAt = clock + r.body.expiresIn
                            /\ last'.expiresAt = clock + r.body.expiresIn
       /\ \A id \in DOMAIN db :
             db[id].expiresAt = Null
                 => /\ id \in DOMAIN db' => db'[id].expiresAt = Null
                    /\ (last'.op = "get" /\ last'.id = id
                           /\ ~db[id].isExpired /\ ~ViewLimitReached(db[id]))
                          => (last'.status = 200 /\ last'.hasContent)]_vars

\* a paste created with expiresIn = 0 is served after the clock has advanced
C17_Witness ==
    \E id \in DOMAIN db :
        /\ db[id].expiresAt = Null
        /\ clock > db[id].createdAt
        /\ last.op = "get" /\ last.id = id /\ last.status = 200

\* C18: a create whose content is empty or only white space is answered 400
\* VALIDATION_ERROR and creates no row; no stored paste has empty content.
C18_BlankContentRejected ==
    [][/\ \A r \in BagToSet(reqs) :
             (CreateAnswered(r) /\ Trim(r.body.content) = <<>>)
                 => /\ last'.status = 400
                    /\ last'.code = "VALIDATION_ERROR"
                    /\ db' = db
       /\ \A id \in DOMAIN db' : db'[id].content # <<>>]_vars

\* C19: the size limit of the content is in encoded bytes: a create whose
\* content encodes to more than MAX_CONTENT_SIZE bytes is answered 400 and
\* creates no row, and one whose content encodes to exactly MAX_CONTENT_SIZE
\* bytes (its other fields valid) is answered 201.
C19_SizeLimitInBytes ==
    [][\A r \in BagToSet(reqs) :
          CreateAnswered(r)
              => /\ ByteLen(r.body.content) > MAX_CONTENT_SIZE
                       => (last'.status = 400 /\ db' = db)
                 /\ (ByteLen(r.body.content) = MAX_CONTENT_SIZE
                        /\ ExpiresInOk(r.body.expiresIn) /\ MaxViewsOk(r.body.maxViews))
                       => last'.status = 201]_vars

\* C20: a GET /:id whose id is not 1 to 20 characters of [a-zA-Z0-9] is
\* answered 400 VALIDATION_ERROR, not 404, and leaves the store and the view
\* counts as they were.
C20_MalformedIdRejected ==
    [][\A r \in BagToSet(reqs) :
          (/\ r.kind = "get" /\ r.pc = "start"
           /\ reqs' = EmptyBag /\ last'.op = "get"
           /\ ~(/\ Len(r.id) \in 1..20
                /\ \A i \in 1..Len(r.id) : r.id[i] \in (Letters \cup Digits)))
              => /\ last'.status = 400
                 /\ last'.code = "VALIDATION_ERROR"
                 /\ db' = db
                 /\ served' = served]_vars

\* the id "../etc" was refused with 400 while a paste is stored
C20_Witness ==
    /\ last.op = "get" /\ last.status = 400
    /\ last.id = <<".", ".", "/", "e", "t", "c">>
    /\ DOMAIN db # {}

(***************************************************************************)
(* Properties of the cleanup routes, in AuthSpec.  A step that answers the *)
(* waiting request r empties reqs and leaves the answer in last'.          *)
(***************************************************************************)
CleanupAnswered(r) ==
    /\ r \in BagToSet(reqs)
    /\ r.kind \in {"sweep", "purge", "stats"}
    /\ reqs' = EmptyBag
    /\ last'.op = r.kind

\* the answer carries nothing read from the store
NoStoreData(resp) ==
    /\ resp.timeExpired = Null /\ resp.viewExpired = Null /\ resp.total = Null
    /\ resp.purged = Null /\ resp.cutoffDate = Null
    /\ resp.pastes = Null /\ resp.active = Null /\ resp.expired = Null
    /\ resp.totalViews = Null

C16_OnlyAuthorizedCounted ==
    [][\A r \in BagToSet(reqs) :
          CleanupAnswered(r) /\ r.kind \in {"sweep", "purge"} =>
              /\ last'.status \in {401, 500} => limits'.cleanup = limits.cleanup
              /\ (/\ \/ env.secret # <<>> /\ r.auth = Bearer(env.secret)
                     \/ ~env.production /\ env.secret = <<>>
                  /\ last'.status = 429)
                 => accepted[r.client].cleanup >= CLEANUP_MAX]_vars

(***************************************************************************)
(* Properties of the limiters in front of the paste routes, in LimitSpec   *)
(***************************************************************************)
\* C14: a request to /api/pastes that is answered 429 leaves the store as
\* it was (no row created, no viewCount incremented, no isExpired set), and
\* its answer is the limiter's, not the validation's, and carries no content.
C14_ThrottledLeavesStore ==
    [][\A r \in BagToSet(reqs) :
          (/\ r.kind \in {"create", "get", "raw"}
           /\ reqs' = EmptyBag
           /\ last'.op = r.kind
           /\ last'.status = 429)
          =>
              /\ db' = db
              /\ last'.code = "RATE_LIMIT_EXCEEDED"
              /\ ~last'.hasContent]_vars

\* a fetch rejected by the limiter of the fetches: the paste is there, not
\* expired, with the GET_MAX views of the fetches let through
C14_Witness ==
    /\ last.op = "get"
    /\ last.status = 429
    /\ \E id \in DOMAIN db : db[id].viewCount = GET_MAX /\ ~db[id].isExpired

\* C15: whatever headers it sends, a client gets at most CREATE_MAX POSTs
\* accepted within a minute, and a POST of one client takes no hit from the
\* window of another client's address.
C15_CreateLimitPerClient ==
    [][\A r \in BagToSet(reqs) :
          CreateAnswered(r) =>
              /\ accepted'[r.client].create <= CREATE_MAX
              /\ \A c \in Clients \ {r.client} :
                     Hits(limits'.create, SocketAddr(c)) = Hits(limits.create, SocketAddr(c))]_vars

(***************************************************************************)
(* Properties of the create, the reasons and the sweep, in Spec            *)
(***************************************************************************)
\* C21: a create whose generated id is the id of a stored row is answered
\* 500 INTERNAL_ERROR and leaves the store as it was: no row is inserted
\* (no retry with another id) and the stored row keeps all its fields.
C21_CollisionFails ==
    [][last'.op = "create" /\ last'.id \in DOMAIN db =>
          /\ last'.status = 500
          /\ last'.code = "INTERNAL_ERROR"
          /\ db' = db]_vars

\* a collision with a row that has been viewed
C21_Witness ==
    /\ last.op = "create"
    /\ last.status = 500
    /\ last.id \in DOMAIN db
    /\ db[last.id].viewCount > 0

\* C22: a GET of a stored paste that is expired (flag set, time limit
\* passed or view limit reached) is answered 410 with the time-limit
\* message when the time limit has passed, else the view-limit message when
\* the view limit is reached, else the fallback; a GET of a paste that is
\* not expired is answered 200 with no reason.
C22_ReasonByPriority ==
    [][\A id \in DOMAIN db :
          last'.op = "get" /\ last'.id = id =>
              LET time == TimeLimitPassed(db[id], clock)
                  views == ViewLimitReached(db[id])
              IN  IF db[id].isExpired \/ time \/ views
                  THEN /\ last'.status = 410
                       /\ last'.message = IF time THEN REASON_TIME
                                          ELSE IF views THEN REASON_VIEWS
                                          ELSE REASON_DELETED
                  ELSE /\ last'.status = 200
                       /\ last'.message = ""]_vars

\* the time-limit message for a paste whose view limit is reached too
C22_Witness ==
    /\ last.op = "get"
    /\ last.message = REASON_TIME
    /\ last.id \in DOMAIN db
    /\ ViewLimitReached(db[last.id])

\* C23: a row whose flag is set satisfies the time condition or the view
\* condition, and no answer carries the fallback reason.
C23_FallbackNeverReturned ==
    /\ \A id \in DOMAIN db :
          db[id].isExpired => TimeLimitPassed(db[id], clock) \/ ViewLimitReached(db[id])
    /\ last.message # REASON_DELETED

\* C26: a sweep at time t flags only pastes that a fetch evaluated at t
\* would refuse: the time limit strictly passed or the view limit reached.
C26_SweepAgreesWithEvaluator ==
    [][last'.op = "sweep" =>
          \A id \in DOMAIN db :
              ~db[id].isExpired /\ db'[id].isExpired =>
                  TimeLimitPassed(db[id], clock) \/ ViewLimitReached(db[id])]_vars

\* C27: the isExpired of a 200 answer of GET /:id is the stored flag of the
\* paste when the request completes.
C27_ResponseFlagIsStoredFlag ==
    last.op = "get" /\ last.status = 200 =>
        /\ last.id \in DOMAIN db
        /\ last.isExpired = db[last.id].isExpired

(***************************************************************************)
(* Properties of the increment, in ConcSpec                                *)
(***************************************************************************)
\* the fetches of paste id in flight that have performed their increment
PastIncrement(id) ==
    {q \in BagToSet(reqs) :
        /\ q.id = id
        /\ \/ q.kind = "get" /\ q.pc \in {"incremented", "flagged"}
           \/ q.kind = "raw" /\ q.pc = "incremented"}

\* C25: the stored viewCount of a paste is the number of fetches that have
\* performed their increment (those answered with the content and those in
\* flight after the increment); the GETs in flight after their increment
\* hold different view counts, none above the stored one, and a 200 answer
\* of GET /:id reports a view count no GET still in flight holds.
C25_IncrementAtomic ==
    /\ [](\A id \in (DOMAIN db) \cap GenIds :
            /\ db[id].viewCount
                  = served[id] + BagCardinality([q \in PastIncrement(id) |-> reqs[q]])
            /\ \A q1 \in PastIncrement(id) :
                  q1.kind = "get" =>
                      /\ reqs[q1] = 1
                      /\ q1.updated.viewCount <= db[id].viewCount
                      /\ \A q2 \in PastIncrement(id) \ {q1} :
                            q2.kind = "get" => q2.updated.viewCount # q1.updated.viewCount)
    /\ [][last'.op = "get" /\ last'.status = 200 =>
              \A q \in BagToSet(reqs') :
                  (/\ q.kind = "get"
                   /\ q.id = last'.id
                   /\ q.pc \in {"incremented", "flagged"})
                      => q.updated.viewCount # last'.viewCount]_vars

\* two fetches of one paste in flight, both after their increment
C25_Witness ==
    \E id \in DOMAIN db :
        /\ db[id].viewCount = 2
        /\ BagCardinality([q \in PastIncrement(id) |-> reqs[q]]) = 2

C28_GeneratedIdsAreValid ==
    /\ [](\A id \in DOMAIN db : GetPasteParamsSchema(id))
    /\ [][\A r \in BagToSet(reqs) :
              (/\ r.kind = "get"
               /\ r.id \in DOMAIN db
               /\ reqs' = EmptyBag
               /\ last'.op = "get")
                  => last'.status = 200 /\ last'.id = r.id]_vars

\* the paste stored under an id with an upper-case Z in the middle, fetched
C28_Witness ==
    /\ last.op = "get"
    /\ last.status = 200
    /\ last.id[4] = "Z"

(***************************************************************************)
(* Properties of the statistics, in StatsSpec                              *)
(***************************************************************************)
\* C29: in an answer of the statistics whose counts are those of the store,
\* noExpiry is the number of pastes with neither expiresAt nor maxViews.
C29_NoExpiryCountsUnlimited ==
    (/\ last.op = "stats"
     /\ last.status = 200
     /\ last.pastes = Cardinality(DOMAIN db)
     /\ last.withTimeExpiry = Cardinality({id \in DOMAIN db : db[id].expiresAt # Null})
     /\ last.withViewLimit = Cardinality({id \in DOMAIN db : db[id].maxViews # Null}))
        => last.noExpiry
             = Cardinality({id \in DOMAIN db : db[id].expiresAt = Null /\ db[id].maxViews = Null})

\* C30: in every answer of the statistics the active and the expired pastes
\* add up to the pastes.
C30_TotalsAddUp ==
    last.op = "stats" /\ last.status = 200 => last.active + last.expired = last.pastes

=============================================================================
